---- MODULE Spec2Model ----
(***************************************************************************)
(* Model of the Anki MCP bridge (src/src/index.ts): the four request       *)
(* handlers registered on the MCP server, the ankiRequest gateway they     *)
(* call, and the AnkiConnect backend they talk to.                         *)
(*                                                                         *)
(* Handlers are async functions: each `await ankiRequest(...)` is a        *)
(* suspension point.  A handler therefore runs as a sequence of atomic     *)
(* steps: the code up to its first await (which issues the backend call),  *)
(* and the continuation run when the backend's reply arrives.  Nothing in  *)
(* the source queues or locks requests, so a new request may be started    *)
(* while others are suspended on a backend round trip.                     *)
(*                                                                         *)
(* Text is modelled as a sequence of tokens (strings); URIs, which the     *)
(* code formats and parses, as sequences of one-character strings.         *)
(* Records list their fields in one fixed order throughout.                *)
(***************************************************************************)
EXTENDS Integers, Sequences, FiniteSets, Bags, TLC

VARIABLES backend, inflight, last

vars == <<backend, inflight, last>>

(* ------------------------------ bounds -------------------------------- *)

\* Largest number of requests suspended on a backend round trip at once.
MaxInFlight == 2

\* Largest number of notes the backend stores (caps the note counter).
MaxNotes == 2

(* ------------------------- JavaScript values -------------------------- *)

Null == [t |-> "null"]
Undefined == [t |-> "undefined"]
Val(v) == [t |-> "val", v |-> v]
NaN == [t |-> "nan"]
Num(n) == [t |-> "num", v |-> n]

\* An object without own properties, {}.
EmptyObject == [k \in {} |-> 0]

\* obj.key: the property, or undefined when the object has no such key.
Get(obj, key) == IF key \in DOMAIN obj THEN Val(obj[key]) ELSE Undefined

\* JSON.stringify of a number: NaN is serialised as null.
JsonNumber(x) == IF x.t = "nan" THEN Null ELSE x

\* JSON.stringify of an array element: undefined is serialised as null.
JsonElement(x) == IF x.t = "undefined" THEN Null ELSE x

(* ------------------------------ strings ------------------------------- *)

DecksPrefix == <<"a", "n", "k", "i", ":", "/", "/", "d", "e", "c", "k", "s", "/">>
ModelsPrefix == <<"a", "n", "k", "i", ":", "/", "/", "m", "o", "d", "e", "l", "s", "/">>

Digits == <<"0", "1", "2", "3", "4", "5", "6", "7", "8", "9">>
HexDigits == Digits \o <<"a", "b", "c", "d", "e", "f">>

\* Value of character c as a digit of the given radix, or -1.
DigitValue(c, radix) ==
  IF \E i \in 1..radix : HexDigits[i] = c
    THEN (CHOOSE i \in 1..radix : HexDigits[i] = c) - 1
    ELSE -1

RECURSIVE NatToString(_)
NatToString(n) ==
  IF n < 10 THEN <<Digits[n + 1]>>
  ELSE NatToString(n \div 10) \o <<Digits[(n % 10) + 1]>>

\* `${id}` for an integer id: its decimal digits, with a leading "-" if negative.
NumberToString(n) == IF n < 0 THEN <<"-">> \o NatToString(-n) ELSE NatToString(n)

\* String.prototype.startsWith
StartsWith(s, p) == Len(s) >= Len(p) /\ SubSeq(s, 1, Len(p)) = p

\* Positions at which p occurs in s.
Occurrences(s, p) ==
  {i \in 1..(Len(s) - Len(p) + 1) : SubSeq(s, i, i + Len(p) - 1) = p}

\* s.replace(p, ""): the first occurrence of p is removed.
ReplaceFirst(s, p) ==
  IF Occurrences(s, p) = {} THEN s
  ELSE LET i == CHOOSE j \in Occurrences(s, p) : \A k \in Occurrences(s, p) : j <= k
       IN SubSeq(s, 1, i - 1) \o SubSeq(s, i + Len(p), Len(s))

RECURSIVE SkipSpace(_)
SkipSpace(s) == IF s # <<>> /\ Head(s) = " " THEN SkipSpace(Tail(s)) ELSE s

\* Length of the longest prefix of s made of digits of the radix.
RECURSIVE DigitPrefixLen(_, _)
DigitPrefixLen(s, radix) ==
  IF s = <<>> \/ DigitValue(Head(s), radix) < 0 THEN 0
  ELSE 1 + DigitPrefixLen(Tail(s), radix)

RECURSIVE DigitsValue(_, _, _)
DigitsValue(s, radix, acc) ==
  IF s = <<>> THEN acc
  ELSE DigitsValue(Tail(s), radix, acc * radix + DigitValue(Head(s), radix))

\* Variant of ParseInt: every string is read in radix 16.
ParseIntRadix16(s) ==
  LET t == SkipSpace(s)
      neg == t # <<>> /\ Head(t) = "-"
      u == IF t # <<>> /\ Head(t) \in {"-", "+"} THEN Tail(t) ELSE t
      n == DigitPrefixLen(u, 16)
      v == DigitsValue(SubSeq(u, 1, n), 16, 0)
  IN IF n = 0 THEN NaN ELSE Num(IF neg THEN -v ELSE v)

\* parseInt(s) without a radix: leading white space is skipped, an optional
\* sign is read, a 0x prefix selects radix 16, then the longest run of digits
\* is converted; characters after it are ignored; no digit at all gives NaN.
ParseInt(s) ==
  LET t == SkipSpace(s)
      neg == t # <<>> /\ Head(t) = "-"
      u == IF t # <<>> /\ Head(t) \in {"-", "+"} THEN Tail(t) ELSE t
      hex == Len(u) >= 2 /\ u[1] = "0" /\ u[2] \in {"x", "X"}
      radix == IF hex THEN 16 ELSE 10
      w == IF hex THEN SubSeq(u, 3, Len(u)) ELSE u
      n == DigitPrefixLen(w, radix)
      v == DigitsValue(SubSeq(w, 1, n), radix, 0)
  IN IF n = 0 THEN NaN ELSE Num(IF neg THEN -v ELSE v)

\* Array.prototype.join(sep) on an array of strings.
RECURSIVE Join(_, _)
Join(xs, sep) ==
  IF xs = <<>> THEN <<>>
  ELSE IF Len(xs) = 1 THEN <<xs[1]>>
  ELSE <<xs[1], sep>> \o Join(Tail(xs), sep)

(* -------------------- the AnkiConnect backend ------------------------- *)

\* A name-to-id mapping as the backend returns it, in the order in which
\* Object.entries enumerates it; the names of one mapping are distinct.
Entry(name, id) == [name |-> name, id |-> id]

\* Collections the backend may hold.  The second has two deck names that
\* carry one id; the first has a deck and a model with the same id.
Collections ==
  { [decks |-> <<Entry("Default", 1), Entry("Spanish", 12)>>,
     models |-> <<Entry("Basic", 12), Entry("Cloze", 7)>>],
    [decks |-> <<Entry("Default", 1), Entry("Alias", 1)>>,
     models |-> <<Entry("Basic", 7)>>] }

Names(mapping) == [i \in 1..Len(mapping) |-> mapping[i].name]
Ids(mapping) == {mapping[i].id : i \in 1..Len(mapping)}
NameSet(mapping) == {mapping[i].name : i \in 1..Len(mapping)}

\* Id the backend gives to the k-th note it stores.
NoteId(k) == 120 + k

\* Backend actions that create notes; every other action is a query.
MutatingActions == {"addNote", "addNotes"}

\* A note the backend accepts: the three required properties are present and
\* name an existing deck and an existing model.
ValidNote(b, note) ==
  /\ {"deckName", "modelName", "fields"} \subseteq DOMAIN note
  /\ note.deckName \in NameSet(b.decks)
  /\ note.modelName \in NameSet(b.models)

\* Definitions of the models whose entry is among `wanted`.
ModelsAmong(b, wanted) ==
  SelectSeq(Names(b.models),
            LAMBDA n : \E i \in 1..Len(b.models) :
                         b.models[i].name = n /\ b.models[i] \in wanted)

ModelEntries(b) == {b.models[i] : i \in 1..Len(b.models)}

\* What a well-formed request yields when the backend carries it out:
\* <<result, number of notes stored afterwards>>; Null when it cannot.
Perform(b, call) ==
  LET p == call.params
      same == b.notes
  IN CASE call.action = "deckNames" -> <<Val(Names(b.decks)), same>>
       [] call.action = "modelNames" -> <<Val(Names(b.models)), same>>
       [] call.action = "deckNamesAndIds" -> <<Val(b.decks), same>>
       [] call.action = "modelNamesAndIds" -> <<Val(b.models), same>>
       [] call.action = "findModelsById" ->
            IF "modelIds" \in DOMAIN p
               /\ \A i \in 1..Len(p.modelIds) :
                    p.modelIds[i].t = "num" /\ p.modelIds[i].v \in Ids(b.models)
              THEN <<Val(ModelsAmong(b, {e \in ModelEntries(b) :
                            \E i \in 1..Len(p.modelIds) : p.modelIds[i].v = e.id})), same>>
              ELSE <<Null, same>>
       [] call.action = "findModelsByName" ->
            IF "modelNames" \in DOMAIN p
               /\ \A i \in 1..Len(p.modelNames) :
                    p.modelNames[i].t = "val" /\ p.modelNames[i].v \in NameSet(b.models)
              THEN <<Val(ModelsAmong(b, {e \in ModelEntries(b) :
                            \E i \in 1..Len(p.modelNames) : p.modelNames[i].v = e.name})), same>>
              ELSE <<Null, same>>
       [] call.action = "addNote" ->
            IF "note" \in DOMAIN p /\ ValidNote(b, p.note) /\ b.notes + 1 <= MaxNotes
              THEN <<Val(NoteId(b.notes + 1)), b.notes + 1>>
              ELSE <<Null, same>>
       [] call.action = "addNotes" ->
            IF "notes" \in DOMAIN p
               /\ \A i \in 1..Len(p.notes) : ValidNote(b, p.notes[i])
               /\ b.notes + Len(p.notes) <= MaxNotes
              THEN <<Val([i \in 1..Len(p.notes) |-> NoteId(b.notes + i)]),
                     b.notes + Len(p.notes)>>
              ELSE <<Null, same>>
       [] OTHER -> <<Null, same>>

\* Every way one POST to the backend can end: the backend is unreachable or
\* its answer is no JSON ("transport"), it answers {result: null, error:
\* <message>} ("error"), or it carries the request out and answers
\* {result: <payload>, error: null} ("ok").
BackendResponses(b, call) ==
  LET done == Perform(b, call)
  IN { [notes |-> b.notes, mode |-> "transport", body |-> [result |-> Null, error |-> Null]],
       [notes |-> b.notes, mode |-> "error",
        body |-> [result |-> Null, error |-> Val("backend error")]] }
     \cup (IF done[1].t = "val"
             THEN {[notes |-> done[2], mode |-> "ok",
                    body |-> [result |-> done[1], error |-> Null]]}
             ELSE {})

(* ------------------------- Backend Gateway ---------------------------- *)

\* ankiRequest, up to the fetch: the envelope POSTed to the backend.  The
\* params are what JSON.stringify leaves of them.
AnkiRequestCall(action, params) == [params |-> params, action |-> action, version |-> 6]

Thrown(error) == [error |-> error, thrown |-> TRUE, value |-> Null]
Returned(value) == [error |-> "", thrown |-> FALSE, value |-> value]

\* ankiRequest, after the fetch: a rejected fetch or response.json() throws;
\* otherwise `result` is taken out of the decoded body and returned.
AnkiRequestReturn(resp) ==
  IF resp.mode = "transport" THEN Thrown("fetch failed")
  ELSE Returned(resp.body.result)

(* ------------------------ requests and replies ------------------------ *)

Request(kind, uri, name, arguments) ==
  [name |-> name, kind |-> kind, uri |-> uri, arguments |-> arguments]

NoRequest == Request("none", <<>>, "", Undefined)

\* A handler suspended in `await ankiRequest(...)`: the request, the await it
\* is at, the backend calls it has issued and the answers it has received,
\* the value of `decks` (list resources only), and whether the backend
\* changed its notes while serving it.
Suspended(req, pc, calls, answers, decks, mutated) ==
  [decks |-> decks, req |-> req, pc |-> pc, calls |-> calls, answers |-> answers,
   mutated |-> mutated]

\* The reply the protocol layer sends for a handler that returned.
Success(req, result, calls, answers, mutated) ==
  [result |-> result, error |-> "", req |-> req, calls |-> calls, answers |-> answers,
   mutated |-> mutated, status |-> "ok"]

\* The reply the protocol layer sends for a handler that threw.
Failure(req, error, calls, answers, mutated) ==
  [result |-> [none |-> TRUE], error |-> error, req |-> req, calls |-> calls,
   answers |-> answers, mutated |-> mutated, status |-> "failed"]

\* What the code before a handler's first await does: throw, return, or call
\* the backend.
Throw(error) == [error |-> error, do |-> "throw"]
Return(result) == [result |-> result, do |-> "return"]
Call(action, params) == [call |-> AnkiRequestCall(action, params), do |-> "call"]

(* -------------------------- Resource Catalog -------------------------- *)

DeckUri(id) == DecksPrefix \o NumberToString(id)
ModelUri(id) == ModelsPrefix \o NumberToString(id)

\* Variant of ListResourcesFirstCalls: both enumerations are issued at once.
ListResourcesBothCalls ==
  <<AnkiRequestCall("deckNamesAndIds", EmptyObject),
    AnkiRequestCall("modelNamesAndIds", EmptyObject)>>

\* The backend calls list resources issues before it first suspends.
ListResourcesFirstCalls == <<AnkiRequestCall("deckNamesAndIds", EmptyObject)>>

\* Variant of ListResourcesResult: the model resources come first.
ListResourcesResultModelsFirst(decks, models) ==
  IF decks.t = "null" \/ models.t = "null" THEN Throw("TypeError")
  ELSE LET deckResources == [i \in 1..Len(decks.v) |->
                               [name |-> decks.v[i].name, uri |-> DeckUri(decks.v[i].id)]]
           modelResources == [i \in 1..Len(models.v) |->
                                [name |-> models.v[i].name, uri |-> ModelUri(models.v[i].id)]]
       IN Return([resources |-> modelResources \o deckResources])

\* List resources, after both awaits: Object.entries of null throws a
\* TypeError; otherwise one resource per entry, decks first.
ListResourcesResult(decks, models) ==
  IF decks.t = "null" \/ models.t = "null" THEN Throw("TypeError")
  ELSE LET deckResources == [i \in 1..Len(decks.v) |->
                               [name |-> decks.v[i].name, uri |-> DeckUri(decks.v[i].id)]]
           modelResources == [i \in 1..Len(models.v) |->
                                [name |-> models.v[i].name, uri |-> ModelUri(models.v[i].id)]]
       IN Return([resources |-> deckResources \o modelResources])

Contents(uri, payload) ==
  [contents |-> <<[uri |-> uri, mimeType |-> "application/json", text |-> payload]>>]

\* Variant of ReadResourceOther: the URI is answered like a deck URI.
ReadResourceOtherAsDeck(uri) == Return(Contents(uri, [deckId |-> JsonNumber(ParseInt(uri))]))

\* Read resource, for a URI of neither prefix.
ReadResourceOther(uri) == Throw("resource not found")

\* Read resource, up to its first await.  `text` holds the value whose JSON
\* serialisation the code returns.
ReadResourceFirst(uri) ==
  IF StartsWith(uri, DecksPrefix)
    THEN LET deckId == ParseInt(ReplaceFirst(uri, DecksPrefix))
         IN Return(Contents(uri, [deckId |-> JsonNumber(deckId)]))
  ELSE IF StartsWith(uri, ModelsPrefix)
    THEN LET modelId == ParseInt(ReplaceFirst(uri, ModelsPrefix))
         IN Call("findModelsById", [modelIds |-> <<JsonNumber(modelId)>>])
  ELSE ReadResourceOther(uri)

\* Read resource, after its await.
ReadResourceResult(uri, models) == Return(Contents(uri, [models |-> models]))

(* --------------------------- Tool Dispatcher -------------------------- *)

ToolNames == <<"listDecks", "listModels", "getModel", "addNote", "addNotes">>

\* required of noteParameters; the other input schemas declare no required list.
NoteRequired == {"deckName", "modelName", "fields"}

ListToolsResult == Return([tools |-> ToolNames])

\* String(x) inside a template literal.
TemplateString(x) ==
  CASE x.t = "undefined" -> "undefined"
    [] x.t = "null" -> "null"
    [] x.t = "num" -> ToString(x.v)
    [] OTHER -> x.v

\* Variant of GetModelFirst: the call of the addNote case is issued.
GetModelFirstAsAddNote(arguments) ==
  IF arguments.t = "undefined" THEN Throw("getModel requires a model name")
  ELSE Call("addNote", [note |-> arguments.v])

\* case "getModel", up to its await.
GetModelFirst(arguments) ==
  IF arguments.t = "undefined" THEN Throw("getModel requires a model name")
  ELSE Call("findModelsByName",
            [modelNames |-> <<JsonElement(Get(arguments.v, "modelName"))>>])

\* case "addNotes", up to its await: an undefined argument selects the
\* default of `params`, {}.
AddNotesFirst(arguments) ==
  Call("addNotes", IF arguments.t = "undefined" THEN EmptyObject ELSE arguments.v)

\* Variant of AddNoteFirst: the arguments are passed without the note wrapper.
AddNoteFirstUnwrapped(arguments) ==
  Call("addNote", IF arguments.t = "undefined" THEN EmptyObject ELSE arguments.v)

\* case "addNote", up to its await: JSON.stringify drops a property whose
\* value is undefined.
AddNoteFirst(arguments) ==
  Call("addNote", IF arguments.t = "undefined" THEN EmptyObject ELSE [note |-> arguments.v])

\* Variant of DefaultFirst: an unknown name falls into the listDecks case.
DefaultFirstAsListDecks(name) == Call("deckNames", EmptyObject)

\* default: of the switch.
DefaultFirst(name) == Throw("Unknown tool")

\* Call tool, up to its first await.
CallToolFirst(req) ==
  CASE req.name = "listDecks" -> Call("deckNames", EmptyObject)
    [] req.name = "listModels" -> Call("modelNames", EmptyObject)
    [] req.name = "getModel" -> GetModelFirst(req.arguments)
    [] req.name = "addNotes" -> AddNotesFirst(req.arguments)
    [] req.name = "addNote" -> AddNoteFirst(req.arguments)
    [] OTHER -> DefaultFirst(req.name)

\* Call tool, after its await: the text built from what ankiRequest returned.
CallToolResult(req, value) ==
  CASE req.name = "listDecks" ->
         IF value.t = "null" THEN Throw("TypeError")
         ELSE Return([toolResult |->
                <<"Here is a list of the decks in the user's Anki collection: ">>
                \o Join(value.v, ", ")])
    [] req.name = "listModels" ->
         Return([toolResult |->
           <<"Here is the list of note models in the user's Anki collection: ">>
           \o (IF value.t = "null" THEN <<"null">> ELSE Join(value.v, ","))])
    [] req.name = "getModel" ->
         Return([toolResult |->
           <<"Here is the ", TemplateString(Get(req.arguments.v, "modelName")),
             " in the user's Anki collection: ">>
           \o (IF value.t = "null" THEN <<"null">> ELSE <<"[">> \o Join(value.v, ",") \o <<"]">>)])
    [] req.name = "addNotes" ->
         IF value.t = "null" THEN Throw("TypeError")
         ELSE Return([toolResult |->
                <<"Created notes with the following IDs: ">>
                \o Join([i \in 1..Len(value.v) |-> ToString(value.v[i])], ", ")])
    [] OTHER ->
         Return([toolResult |->
           <<"Created note with the following ID: ",
             IF value.t = "null" THEN "null" ELSE ToString(value.v)>>])

(* --------------------------- client inputs ---------------------------- *)

NoteFull == [deckName |-> "Default", modelName |-> "Basic", fields |-> [Front |-> "Q", Back |-> "A"]]
NoteTags == [deckName |-> "Default", modelName |-> "Cloze", fields |-> [Front |-> "Q", Back |-> "A"],
             tags |-> <<"t1">>]
NoteNoFields == [deckName |-> "Default", modelName |-> "Basic"]

\* Argument mappings a client sends with a tool name (absent, empty, complete
\* and incomplete ones).
ArgumentsFor(name) ==
  CASE name \in {"listDecks", "listModels"} -> {Val(EmptyObject)}
    [] name = "getModel" -> {Undefined, Val(EmptyObject), Val([modelName |-> "Basic"])}
    [] name = "addNote" ->
         {Undefined, Val(NoteFull), Val(NoteTags), Val(NoteNoFields)}
    [] name = "addNotes" ->
         {Val(EmptyObject), Val([notes |-> <<NoteFull, NoteTags>>])}
    [] name = "unknownTool" -> {Val(EmptyObject)}
    [] OTHER -> {Val(NoteFull)}

\* Tool names a client calls: the five of the table, a name that never was a
\* tool, and a name of the earlier tool list.
CalledNames == {ToolNames[i] : i \in 1..Len(ToolNames)} \cup {"unknownTool", "create_note"}

DeckIds == UNION {Ids(c.decks) : c \in Collections}
ModelIds == UNION {Ids(c.models) : c \in Collections}

\* URIs a client reads: those list resources can produce, decks/ and models/
\* URIs with a suffix that is no unsigned integer, and URIs of other shapes.
ReadUris ==
  {DeckUri(id) : id \in DeckIds} \cup {ModelUri(id) : id \in ModelIds}
  \cup {DecksPrefix \o x : x \in {<<>>, <<"-", "1">>, <<"1", "x">>}}
  \cup {ModelsPrefix \o x : x \in {<<"x">>, <<"7", "x">>}}
  \cup {<<"b", "o", "g", "u", "s", ":", "/", "/", "x">>}

(* ------------------------------ actions ------------------------------- *)

Init ==
  /\ backend \in {[decks |-> c.decks, models |-> c.models, notes |-> 0] : c \in Collections}
  /\ inflight = EmptyBag
  /\ last = Failure(NoRequest, "", <<>>, <<>>, FALSE)

CanSuspend == BagCardinality(inflight) < MaxInFlight

Suspend(r) == inflight' = inflight (+) SetToBag({r})

\* Handler r leaves its await and suspends again as r2.
Resuspend(r, r2) == inflight' = (inflight (-) SetToBag({r})) (+) SetToBag({r2})

Finish(r) == inflight' = inflight (-) SetToBag({r})

\* The call handler r is waiting on.
Pending(r) == r.calls[Len(r.answers) + 1]

\* The reply for a handler whose last step ended as `step`.
Reply(req, step, calls, answers, mutated) ==
  IF step.do = "throw" THEN Failure(req, step.error, calls, answers, mutated)
  ELSE Success(req, step.result, calls, answers, mutated)

\* A request arrives and its handler runs to its first await, where it
\* suspends, or to its end, where it is replied to.
StartInflight(req, step) ==
  IF step.do = "call"
    THEN inflight (+) SetToBag({Suspended(req, "await", <<step.call>>, <<>>, Null, FALSE)})
    ELSE inflight

StartLast(req, step) ==
  IF step.do = "call" THEN last ELSE Reply(req, step, <<>>, <<>>, FALSE)

\* The backend's state after it answered with resp.
Served(resp) == [backend EXCEPT !.notes = resp.notes]

\* The answers handler r has received, resp included.
Answers(r, resp) == Append(r.answers, [mode |-> resp.mode, body |-> resp.body])

\* Whether the backend changed its notes for r, resp included.
Mutated(r, resp) == r.mutated \/ resp.notes # backend.notes

\* An await of ankiRequest that threw ends the handler with that error;
\* otherwise the handler goes on to `step`.
AfterAwait(ret, step) == IF ret.thrown THEN Throw(ret.error) ELSE step

ListResources ==
  /\ CanSuspend
  /\ Suspend(Suspended(Request("listResources", <<>>, "", Undefined), "decks",
                       ListResourcesFirstCalls, <<>>, Null, FALSE))
  /\ UNCHANGED <<backend, last>>

\* The backend answers the deck enumeration; the model enumeration is issued.
ListResourcesDecks ==
  \E r \in {x \in BagToSet(inflight) : x.pc = "decks"} :
    \E resp \in BackendResponses(backend, Pending(r)) : \E ret \in {AnkiRequestReturn(resp)} :
      /\ backend' = Served(resp)
      /\ IF ret.thrown
           THEN /\ Finish(r)
                /\ last' = Reply(r.req, Throw(ret.error), r.calls, Answers(r, resp),
                                 Mutated(r, resp))
           ELSE /\ Resuspend(r, Suspended(r.req, "models",
                       Append(r.calls, AnkiRequestCall("modelNamesAndIds", EmptyObject)),
                       Answers(r, resp), ret.value, Mutated(r, resp)))
                /\ UNCHANGED last

\* The backend answers the model enumeration; the resources are built.
ListResourcesModels ==
  \E r \in {x \in BagToSet(inflight) : x.pc = "models"} :
    \E resp \in BackendResponses(backend, Pending(r)) : \E ret \in {AnkiRequestReturn(resp)} :
      /\ backend' = Served(resp)
      /\ Finish(r)
      /\ last' = Reply(r.req, AfterAwait(ret, ListResourcesResult(r.decks, ret.value)),
                       r.calls, Answers(r, resp), Mutated(r, resp))

ReadResource ==
  \E uri \in ReadUris :
    \E req \in {Request("readResource", uri, "", Undefined)} :
      \E step \in {ReadResourceFirst(req.uri)} :
        /\ step.do = "call" => CanSuspend
        /\ inflight' = StartInflight(req, step)
        /\ last' = StartLast(req, step)
        /\ UNCHANGED backend

\* The backend answers findModelsById; the contents are built.
ReadResourceModels ==
  \E r \in {x \in BagToSet(inflight) : x.req.kind = "readResource"} :
    \E resp \in BackendResponses(backend, Pending(r)) : \E ret \in {AnkiRequestReturn(resp)} :
      /\ backend' = Served(resp)
      /\ Finish(r)
      /\ last' = Reply(r.req, AfterAwait(ret, ReadResourceResult(r.req.uri, ret.value)),
                       r.calls, Answers(r, resp), Mutated(r, resp))

ListTools ==
  /\ last' = Reply(Request("listTools", <<>>, "", Undefined), ListToolsResult, <<>>, <<>>, FALSE)
  /\ UNCHANGED <<backend, inflight>>

CallTool ==
  \E name \in CalledNames : \E arguments \in ArgumentsFor(name) :
    \E req \in {Request("callTool", <<>>, name, arguments)} :
      \E step \in {CallToolFirst(req)} :
        /\ step.do = "call" => CanSuspend
        /\ inflight' = StartInflight(req, step)
        /\ last' = StartLast(req, step)
        /\ UNCHANGED backend

\* The backend answers the tool's call; the text is built.
CallToolAnswer ==
  \E r \in {x \in BagToSet(inflight) : x.req.kind = "callTool"} :
    \E resp \in BackendResponses(backend, Pending(r)) : \E ret \in {AnkiRequestReturn(resp)} :
      /\ backend' = Served(resp)
      /\ Finish(r)
      /\ last' = Reply(r.req, AfterAwait(ret, CallToolResult(r.req, ret.value)),
                       r.calls, Answers(r, resp), Mutated(r, resp))

Next ==
  \/ ListResources
  \/ ListResourcesDecks
  \/ ListResourcesModels
  \/ ReadResource
  \/ ReadResourceModels
  \/ ListTools
  \/ CallTool
  \/ CallToolAnswer

Spec == Init /\ [][Next]_vars

(* ------------------------------ claims -------------------------------- *)

ToolNameSet == {ToolNames[i] : i \in 1..Len(ToolNames)}

\* Failure kinds of the error taxonomy, by the message the handler throws.
RoutingErrors == {"Unknown tool", "resource not found"}
ArgumentErrors == {"getModel requires a model name"}

Replied == last.req.kind # "none"
IsTool(req, name) == req.kind = "callTool" /\ req.name = name

\* The part of a URI after a prefix of the given length.
Suffix(uri, prefix) == SubSeq(uri, Len(prefix) + 1, Len(uri))

DigitSet == {Digits[i] : i \in 1..Len(Digits)}
IsUnsigned(s) == s # <<>> /\ \A i \in 1..Len(s) : s[i] \in DigitSet

\* The number a string of decimal digits denotes.
RECURSIVE DecimalValue(_)
DecimalValue(s) ==
  IF s = <<>> THEN 0
  ELSE 10 * DecimalValue(SubSeq(s, 1, Len(s) - 1))
       + (CHOOSE d \in 0..9 : Digits[d + 1] = s[Len(s)])

\* uri is <prefix><id>, id written as an unsigned decimal number.
IsUriOf(uri, prefix, id) ==
  /\ StartsWith(uri, prefix)
  /\ IsUnsigned(Suffix(uri, prefix))
  /\ DecimalValue(Suffix(uri, prefix)) = id

\* text is a heading followed by the items, separated by sep.
IsJoined(text, items, sep) ==
  /\ Len(text) = 2 * Len(items)
  /\ \A i \in 1..Len(items) :
       text[2 * i] = items[i] /\ (i > 1 => text[2 * i - 1] = sep)

\* Some answer the gateway got for x was a transport failure or carried a
\* non-empty error field.
BackendFailed(x) ==
  \E i \in 1..Len(x.answers) :
    x.answers[i].mode = "transport" \/ x.answers[i].body.error.t = "val"

\* C1: an operation whose backend call reported an error, or whose transport
\* call failed, ends in a failure; it never returns a success result.
C1_BackendErrorSurfaces == (Replied /\ BackendFailed(last)) => last.status = "failed"

\* The required arguments of the tool table.
RequiredArguments(name) ==
  CASE name = "getModel" -> {"modelName"}
    [] name = "addNote" -> NoteRequired
    [] name = "addNotes" -> {"notes"}
    [] OTHER -> {}

LacksRequired(req) ==
  /\ req.kind = "callTool"
  /\ req.name \in ToolNameSet
  /\ RequiredArguments(req.name) # {}
  /\ \/ req.arguments.t = "undefined"
     \/ ~(RequiredArguments(req.name) \subseteq DOMAIN req.arguments.v)

\* C2: a tool invocation that lacks a required argument fails with an
\* argument failure, and no backend call is issued for it.
C2_MissingArgumentFails ==
  /\ LacksRequired(last.req) =>
       last.status = "failed" /\ last.error \in ArgumentErrors /\ last.calls = <<>>
  /\ \A r \in BagToSet(inflight) : ~LacksRequired(r.req)

\* C3: a call of a name that is none of the five tools fails with the
\* routing failure "Unknown tool", and no backend call is issued for it.
C3_UnknownToolFails ==
  /\ (last.req.kind = "callTool" /\ last.req.name \notin ToolNameSet) =>
       last.status = "failed" /\ last.error = "Unknown tool"
       /\ last.error \in RoutingErrors /\ last.calls = <<>>
  /\ \A r \in BagToSet(inflight) : r.req.kind = "callTool" => r.req.name \in ToolNameSet

C3_Witness ==
  /\ last.req.kind = "callTool" /\ last.req.name = "create_note"
  /\ last.req.arguments.t = "val" /\ last.status = "failed"

Listed == last.req.kind = "listResources" /\ last.status = "ok"

\* One entry per key of each mapping, named by the key, with the URI of the
\* key's id, deck entries before model entries.
OneEntryPerKey ==
  LET res == last.result.resources
      d == backend.decks
      m == backend.models
  IN /\ Len(res) = Len(d) + Len(m)
     /\ \A i \in 1..Len(d) :
          res[i].name = d[i].name /\ IsUriOf(res[i].uri, DecksPrefix, d[i].id)
     /\ \A j \in 1..Len(m) :
          /\ res[Len(d) + j].name = m[j].name
          /\ IsUriOf(res[Len(d) + j].uri, ModelsPrefix, m[j].id)

\* Two entries of the listing share a URI.
DuplicateUris ==
  LET res == last.result.resources
  IN \E i, j \in 1..Len(res) : i < j /\ res[i].uri = res[j].uri

\* C4, as stated: list() returns one entry per mapping key, with the URI of
\* the key's id, decks before models, and no two entries with the same URI,
\* also when two names of one mapping carry the same id.
C4_ListNoDuplicates == Listed => (OneEntryPerKey /\ ~DuplicateUris)

\* C4, amended: list() returns one entry per mapping key, with the URI of the
\* key's id, decks before models; two entries share a URI only if they are
\* entries of one mapping whose names carry the same id there.
C4_ListOnePerKey ==
  Listed =>
    /\ OneEntryPerKey
    /\ LET res == last.result.resources
           d == backend.decks
           m == backend.models
       IN \A i, j \in 1..Len(res) :
            (i < j /\ res[i].uri = res[j].uri) =>
              \/ j <= Len(d) /\ d[i].id = d[j].id
              \/ i > Len(d) /\ m[i - Len(d)].id = m[j - Len(d)].id

C4_Witness == Listed /\ DuplicateUris /\ Len(last.result.resources) > Len(backend.decks)

\* C5, as stated: a request is completed, all its backend round trips
\* included, before the next one is started: no two requests are in progress.
C5_OneRequestAtATime == BagCardinality(inflight) <= 1

\* C5, amended: handlers interleave at their awaits, but each request has
\* exactly one backend call outstanding while it is suspended: list() issues
\* the model enumeration only after the deck enumeration was answered.
C5_OneCallAtATime ==
  /\ \A r \in BagToSet(inflight) : Len(r.calls) = Len(r.answers) + 1
  /\ Replied => Len(last.calls) = Len(last.answers)

C5_Witness ==
  \E r, q \in BagToSet(inflight) :
    /\ r.req.kind = "listResources" /\ r.pc = "models" /\ Len(r.calls) = 2
    /\ IsTool(q.req, "addNote")

MalformedId(uri) ==
  \/ StartsWith(uri, DecksPrefix) /\ ~IsUnsigned(Suffix(uri, DecksPrefix))
  \/ StartsWith(uri, ModelsPrefix) /\ ~IsUnsigned(Suffix(uri, ModelsPrefix))

\* C6: read of a decks/ or models/ URI whose suffix is no unsigned integer
\* fails with an argument failure, returns no content and issues no backend call.
C6_MalformedIdFails ==
  /\ (last.req.kind = "readResource" /\ MalformedId(last.req.uri)) =>
       last.status = "failed" /\ last.error \in ArgumentErrors /\ last.calls = <<>>
  /\ \A r \in BagToSet(inflight) : ~(r.req.kind = "readResource" /\ MalformedId(r.req.uri))

OtherPrefix(uri) == ~StartsWith(uri, DecksPrefix) /\ ~StartsWith(uri, ModelsPrefix)

\* C7: read of a URI with neither the decks/ nor the models/ prefix fails with
\* the routing failure "resource not found" and issues no backend call.
C7_OtherPrefixNotFound ==
  /\ (last.req.kind = "readResource" /\ OtherPrefix(last.req.uri)) =>
       last.status = "failed" /\ last.error = "resource not found"
       /\ last.error \in RoutingErrors /\ last.calls = <<>>
  /\ \A r \in BagToSet(inflight) : r.req.kind = "readResource" => ~OtherPrefix(r.req.uri)

C7_Witness ==
  /\ last.req.kind = "readResource" /\ last.status = "failed"
  /\ last.req.uri = <<"b", "o", "g", "u", "s", ":", "/", "/", "x">>

Adder(req) == IsTool(req, "addNote") \/ IsTool(req, "addNotes")

\* x issued only queries, and the backend's notes did not change for it.
ReadOnly(x) ==
  /\ \A i \in 1..Len(x.calls) : x.calls[i].action \notin MutatingActions
  /\ ~x.mutated

\* C8: only addNote and addNotes issue a mutating backend action; every
\* other operation issues queries only and leaves the backend's state as it
\* is, and the output of listDecks and of listModels, when the backend
\* answers from its state, is the one that state determines, however often
\* they are repeated.
C8_OnlyAddersMutate ==
  /\ \A r \in BagToSet(inflight) : ~Adder(r.req) => ReadOnly(r)
  /\ ~Adder(last.req) => ReadOnly(last)
  /\ (IsTool(last.req, "listDecks") /\ last.status = "ok") =>
       IsJoined(last.result.toolResult, Names(backend.decks), ", ")
  /\ (IsTool(last.req, "listModels") /\ last.status = "ok" /\ ~BackendFailed(last)) =>
       IsJoined(last.result.toolResult, Names(backend.models), ",")

C8_Witness ==
  /\ IsTool(last.req, "listDecks") /\ last.status = "ok"
  /\ backend.notes > 0
  /\ \E r \in BagToSet(inflight) : IsTool(r.req, "listDecks")

\* x is an addNote invocation with arguments A that issued one call, "addNote"
\* with params {note: A}.
AddNoteCall(x) ==
  /\ Len(x.calls) = 1
  /\ x.calls[1].action = "addNote"
  /\ x.calls[1].params = [note |-> x.req.arguments.v]

\* C9: addNote with arguments A issues exactly one backend call, "addNote"
\* with params {note: A}, and the text contains the id the backend returned;
\* addNotes issues exactly one "addNotes" call and returns the created ids
\* joined by ", ".
C9_AddNotePassesArguments ==
  /\ \A r \in BagToSet(inflight) :
       /\ (IsTool(r.req, "addNote") /\ r.req.arguments.t = "val") => AddNoteCall(r)
       /\ IsTool(r.req, "addNotes") => Len(r.calls) = 1 /\ r.calls[1].action = "addNotes"
  /\ (IsTool(last.req, "addNote") /\ last.req.arguments.t = "val") =>
       /\ AddNoteCall(last)
       /\ last.answers[1].mode = "ok" =>
            /\ last.status = "ok"
            /\ \E i \in 1..Len(last.result.toolResult) :
                 last.result.toolResult[i] = ToString(last.answers[1].body.result.v)
  /\ IsTool(last.req, "addNotes") =>
       /\ Len(last.calls) = 1 /\ last.calls[1].action = "addNotes"
       /\ last.answers[1].mode = "ok" =>
            /\ last.status = "ok"
            /\ IsJoined(last.result.toolResult,
                        [i \in 1..Len(last.answers[1].body.result.v) |->
                           ToString(last.answers[1].body.result.v[i])], ", ")

C9_Witness ==
  /\ IsTool(last.req, "addNote") /\ last.req.arguments.t = "val"
  /\ "tags" \in DOMAIN last.req.arguments.v
  /\ last.status = "ok" /\ last.answers[1].mode = "ok"
  /\ last.answers[1].body.result.v = NoteId(2)

\* x is a read of the models/ URI of id that issued one call, "findModelsById"
\* with the id list [id].
ModelReadCall(x, id) ==
  /\ Len(x.calls) = 1
  /\ x.calls[1].action = "findModelsById"
  /\ x.calls[1].params = [modelIds |-> <<Num(id)>>]

\* C10: read accepts every URI that list() produces for a backend id and
\* resolves it to that id: a deck URI yields the payload {deckId: id} without
\* a backend call, a model URI one "findModelsById" call with the id list [id].
C10_ListedUriReadsBack ==
  /\ \A id \in Ids(backend.decks) :
       (last.req.kind = "readResource" /\ last.req.uri = DeckUri(id)) =>
         /\ last.status = "ok"
         /\ last.calls = <<>>
         /\ last.result.contents[1].text = [deckId |-> Num(id)]
  /\ \A id \in Ids(backend.models) :
       /\ (last.req.kind = "readResource" /\ last.req.uri = ModelUri(id)) =>
            last.error # "resource not found" /\ ModelReadCall(last, id)
       /\ \A r \in BagToSet(inflight) :
            (r.req.kind = "readResource" /\ r.req.uri = ModelUri(id)) => ModelReadCall(r, id)

C10_Witness ==
  /\ last.req.kind = "readResource" /\ last.req.uri = ModelUri(12)
  /\ 12 \in Ids(backend.models) /\ last.status = "ok"
  /\ \E r \in BagToSet(inflight) : r.req.kind = "listResources"

====
